---- MODULE Spec2Model ----
(***************************************************************************)
(* P-M interaction curve engine of PMAPP.py (circular reinforced-concrete  *)
(* column): steel lookup, maximum axial capacity, rebar layout and the     *)
(* neutral-axis sweep that appends (Pn, Mn, Pr, Mr) to P_M_Curve.          *)
(*                                                                         *)
(* The script computes in binary floating point; the model computes in     *)
(* fixed point on integers that fit 32 bits:                               *)
(*   lengths   in mil (1e-3 in)      areas   in 1e-2 in^2                  *)
(*   strains   in 1e-6               stress  in psi                        *)
(*   forces    in lb                 moments in lb*in                      *)
(*   angles, sines, cosines and phi in 1e-4 (One)                          *)
(* Every quotient is a floor; statements "within tolerance" are stated     *)
(* with an explicit tolerance in these units.                              *)
(***************************************************************************)
EXTENDS Integers, Sequences, FiniteSets

VARIABLES
    pc,                  \* position of the script run
    diameter, cover, number_of_bars, bar, fc, fy, tie_type,   \* sidebar input
    area_bar, d_bar,     \* steel lookup result
    Max_Pn,              \* maximum axial capacity, set once
    bar_coords,          \* barid -> <<x, y>>
    i,                   \* number of depths of c_fine the loop has taken
    c, Asminus, bar_cg_force_moment, theta, Pn, Mn, phi, Pr, Mr,  \* loop globals
    P_M_Curve,           \* sequence of <<Pn, Mn, Pr, Mr>>
    call, prev           \* last two applications of a material function

inputs == <<diameter, cover, number_of_bars, bar, fc, fy, tie_type>>
lookup == <<area_bar, d_bar>>
loopvars == <<i, c, Asminus, bar_cg_force_moment, theta, Pn, Mn, phi, Pr, Mr>>
vars == <<pc, inputs, lookup, Max_Pn, bar_coords, loopvars, P_M_Curve, call, prev>>

(***************************************************************************)
(* Bounds of the model.                                                    *)
(***************************************************************************)
MaxBars == 5          \* number_of_bars is drawn from -1 .. MaxBars
StrainSteps == 12     \* material functions are applied on strains of -StrainSteps..StrainSteps half-millistrains

(***************************************************************************)
(* Fixed-point helpers.                                                    *)
(***************************************************************************)
One == 10^4
Mil == 10^3

Abs(a) == IF a < 0 THEN -a ELSE a

\* floor(a*b/d) without forming a*b: a may be large, (d-1)*|b| must fit 32 bits
MulDiv(a, b, d) == (a \div d) * b + ((a % d) * b) \div d

Pi == 31416
TwoPi == 2 * Pi
HalfPi == Pi \div 2

\* sin on [0, pi/2] by its Taylor polynomial up to x^9 in Horner form
SinQ(x) ==
    LET x2 == (x * x) \div One
        t4 == One - x2 \div 72
        t3 == One - ((x2 \div 42) * t4) \div One
        t2 == One - ((x2 \div 20) * t3) \div One
        t1 == One - ((x2 \div 6) * t2) \div One
    IN  (x * t1) \div One

Sin(a) ==
    LET r == a % TwoPi
    IN  IF r <= HalfPi THEN SinQ(r)
        ELSE IF r <= Pi THEN SinQ(Pi - r)
        ELSE IF r <= Pi + HalfPi THEN -SinQ(r - Pi)
        ELSE -SinQ(TwoPi - r)

Cos(a) == Sin(a + HalfPi)

\* arccos on [-1, 1] by bisection of the decreasing Cos on [0, pi]
RECURSIVE ArcCosB(_, _, _)
ArcCosB(u, lo, hi) ==
    IF hi - lo <= 1
    THEN IF Abs(Cos(lo) - u) <= Abs(Cos(hi) - u) THEN lo ELSE hi
    ELSE LET mid == (lo + hi) \div 2
         IN  IF Cos(mid) >= u THEN ArcCosB(u, mid, hi) ELSE ArcCosB(u, lo, mid)

ArcCos(u) == ArcCosB(u, 0, Pi)

(***************************************************************************)
(* Steel lookup table (lines 40-44): Area in 1e-2 in^2, Dia in mil.        *)
(***************************************************************************)
steel_table ==
    [b \in 3..11 |->
        CASE b = 3  -> [Area |-> 11,  Dia |-> 375]
          [] b = 4  -> [Area |-> 20,  Dia |-> 500]
          [] b = 5  -> [Area |-> 31,  Dia |-> 625]
          [] b = 6  -> [Area |-> 44,  Dia |-> 750]
          [] b = 7  -> [Area |-> 60,  Dia |-> 875]
          [] b = 8  -> [Area |-> 79,  Dia |-> 1000]
          [] b = 9  -> [Area |-> 100, Dia |-> 1128]
          [] b = 10 -> [Area |-> 127, Dia |-> 1270]
          [] b = 11 -> [Area |-> 156, Dia |-> 1410]]

\* the sidebar's select box offers "#3" .. "#11"
BarSizes == 3..11

(***************************************************************************)
(* Material constants (lines 53-55).                                       *)
(***************************************************************************)
Es == 29                 \* 29000 ksi = 29 psi per micro-strain
crush_strain == -3000    \* -0.003

radius == diameter \div 2
trans_bar_coeff == IF tie_type = "Spirals" THEN 85 ELSE 80    \* per cent

(***************************************************************************)
(* Max Pn (lines 61-65).                                                   *)
(***************************************************************************)
area_shaft == MulDiv((diameter * diameter) \div 4, Pi, One) \div One
area_steel == area_bar * number_of_bars
area_conc_total == area_shaft - area_steel

\* 0.85*fc*area, in lb, of an area in 1e-2 in^2
ConcreteLb(area) == (((area * fc) \div 100) * 85) \div 100
\* fy*area, in lb
SteelLb(area) == (area * fy) \div 100

MaxPnValue ==
    ((((ConcreteLb(area_conc_total) + SteelLb(area_steel)) * 75) \div 100)
        * trans_bar_coeff) \div 100

(***************************************************************************)
(* Functions (lines 68-95).                                                *)
(***************************************************************************)
\* cc is a depth in mil; c > diameter/0.85 is compared as 0.85*c > diameter
angle(cc) ==
    IF cc * 85 > diameter * 100
    THEN Pi
    ELSE ArcCos(((radius - (cc * 85) \div 100) * One) \div radius)

\* <<area in 1e-2 in^2, cg in mil>>
circle_sector(cc, th) ==
    LET seg  == th * 2 - Sin(2 * th)
        area == IF th < 2 * Pi
                THEN MulDiv((radius * radius) \div 2, seg, One) \div One
                ELSE MulDiv((diameter * diameter) \div 4, Pi, One) \div One
        sin3 == ((((Sin(th) * Sin(th)) \div One) * Sin(th)) \div One)
        cg   == (((4 * radius * sin3) \div One) * One) \div (3 * seg)
    IN  <<area, cg>>

\* resist_factor with the interpolation divided by 0.005 instead of 0.005 - 0.002
resist_factor_slope(strain) ==
    IF strain <= 2000 THEN 7500
    ELSE IF strain < 5000
         THEN 7500 + (1500 * (strain - 2000)) \div 5000
         ELSE 9000

\* strain in 1e-6, result in 1e-4
resist_factor(strain) ==
    IF strain <= 2000 THEN 7500
    ELSE IF strain < 5000
         THEN 7500 + (1500 * (strain - 2000)) \div (5000 - 2000)
         ELSE 9000

\* steel_stress that never yields (the plastic branch forgotten)
steel_stress_elastic(strain) == strain * Es

\* steel_stress that loses the sign of the strain
steel_stress_unsigned(strain) ==
    IF Abs(strain) * Es < fy THEN Abs(strain) * Es ELSE fy

\* abs(strain) < ys with ys = fy/Es is compared as abs(strain)*Es < fy
steel_stress(strain) ==
    LET stress == IF Abs(strain) * Es < fy THEN Abs(strain) * Es ELSE fy
    IN  IF strain >= 0 THEN stress ELSE -stress

(***************************************************************************)
(* Rebar layout (lines 98-104).                                            *)
(***************************************************************************)
steel_cg == radius - cover - d_bar \div 2

\* BarAngle with the bars spread over 180 degrees
BarAngleHalf(barid) == (barid * Pi) \div number_of_bars

\* deg2rad(barid * angle_space), angle_space = 360 / number_of_bars
BarAngle(barid) == (barid * TwoPi) \div number_of_bars

BarCoordsValue ==
    [barid \in 0..(number_of_bars - 1) |->
        << (steel_cg * Cos(BarAngle(barid))) \div One,
           (steel_cg * Sin(BarAngle(barid))) \div One >>]

(***************************************************************************)
(* P-M curve calculation (lines 125-157).                                  *)
(***************************************************************************)
SweepStart == 20         \* np.arange(2, 100, 0.1), in tenths of an inch
SweepStop == 1000
SweepInc == 1
\* the sweep length with the stop value included
SweepLenInclusive == (SweepStop - SweepStart) \div SweepInc + 1

\* length of np.arange: ceil((stop - start) / step)
SweepLen == (SweepStop - SweepStart + SweepInc - 1) \div SweepInc
\* c_fine[k] in mil, k from 0
c_fine(k) == (SweepStart + k * SweepInc) * (Mil \div 10)

\* lines 131-136: strain of the bar at height y for depth cc
BarStrain(y, cc) ==
    LET y_bar_top == radius - y
    IN  IF y_bar_top <= cc
        THEN (crush_strain * (cc - y_bar_top)) \div cc
        ELSE ((-crush_strain) * (y_bar_top - cc)) \div cc

\* lines 137-140: <<bar_strain, bar_force, bar_moment>>
BarRow(y, cc) ==
    LET bar_strain == BarStrain(y, cc)
        bar_force  == (steel_stress(bar_strain) * area_bar) \div 100
        bar_moment == MulDiv(bar_force, y, Mil)
    IN  <<bar_strain, bar_force, bar_moment>>

\* the rows appended over the bars, in barid order
BarRows(cc) ==
    [k \in 1..Cardinality(DOMAIN bar_coords) |-> BarRow(bar_coords[k - 1][2], cc)]

\* Asminus not reset: the loop starts from the value the last depth left
AsminusCarried == Asminus

\* line 129
AsminusStart == 0

\* lines 141-142 over the bars from barid on, acc the running Asminus
RECURSIVE AsminusLoop(_, _, _)
AsminusLoop(barid, acc, cc) ==
    IF barid \notin DOMAIN bar_coords THEN acc
    ELSE AsminusLoop(barid + 1,
                     IF (radius - bar_coords[barid][2]) * 100 < 85 * cc
                     THEN acc + area_bar ELSE acc,
                     cc)

RECURSIVE SumCol(_, _)
SumCol(rows, col) ==
    IF rows = << >> THEN 0 ELSE Head(rows)[col] + SumCol(Tail(rows), col)

RECURSIVE MaxCol(_, _)
MaxCol(rows, col) ==
    IF Len(rows) = 1 THEN rows[1][col]
    ELSE LET m == MaxCol(Tail(rows), col)
         IN  IF rows[1][col] >= m THEN rows[1][col] ELSE m

\* line 150: the strain handed to resist_factor
GoverningStrain(rows) == MaxCol(rows, 1)

\* the cap comparing Pr itself, not its magnitude
CapPrNoAbs(pr, maxpn) == IF pr > maxpn THEN -maxpn ELSE pr

\* lines 151-153
CapPr(pr, maxpn) == IF Abs(pr) > maxpn THEN -maxpn ELSE pr

\* Mr left unfactored
UnfactoredMr(mn, ph) == mn

\* line 154
FactoredMr(mn, ph) == MulDiv(mn, ph, One)

(***************************************************************************)
(* The script run.                                                         *)
(***************************************************************************)
Diameters == {0, 10 * Mil, 36 * Mil}
Covers == {3 * Mil}
BarChoices == {11}
Materials == {[fc |-> 3000, fy |-> 80000]}
TieTypes == {"Spirals", "Hoops"}

NoCall == [fn |-> "none", arg |-> 0, res |-> 0]

Unset ==
    /\ area_bar = 0 /\ d_bar = 0
    /\ Max_Pn = 0
    /\ bar_coords = << >>
    /\ i = 0 /\ c = 0 /\ Asminus = 0 /\ bar_cg_force_moment = << >>
    /\ theta = 0 /\ Pn = 0 /\ Mn = 0 /\ phi = 0 /\ Pr = 0 /\ Mr = 0
    /\ P_M_Curve = << >>
    /\ call = NoCall /\ prev = NoCall

\* lines 25-37: the sidebar widgets accept any number; the select box only
\* the listed bar sizes
Init ==
    /\ pc = "lookup"
    /\ diameter \in Diameters
    /\ cover \in Covers
    /\ number_of_bars \in -1..MaxBars
    /\ bar \in BarChoices
    /\ \E m \in Materials : fc = m.fc /\ fy = m.fy
    /\ tie_type \in TieTypes
    /\ Unset

\* lines 45-51
SteelLookup ==
    /\ pc = "lookup"
    /\ IF bar \in DOMAIN steel_table
       THEN /\ area_bar' = steel_table[bar].Area
            /\ d_bar' = steel_table[bar].Dia
            /\ pc' = "maxpn"
       ELSE /\ pc' = "stopped"
            /\ UNCHANGED lookup
    /\ UNCHANGED <<inputs, Max_Pn, bar_coords, loopvars, P_M_Curve, call, prev>>

\* lines 53-65
MaxPn ==
    /\ pc = "maxpn"
    /\ Max_Pn' = MaxPnValue
    /\ pc' = "layout"
    /\ UNCHANGED <<inputs, lookup, bar_coords, loopvars, P_M_Curve, call, prev>>

\* lines 98-104; 360 / number_of_bars raises ZeroDivisionError for 0 bars
RebarLayout ==
    /\ pc = "layout"
    /\ IF number_of_bars = 0
       THEN /\ pc' = "error"
            /\ UNCHANGED bar_coords
       ELSE /\ bar_coords' = BarCoordsValue
            /\ pc' = "sweep"
    /\ UNCHANGED <<inputs, lookup, Max_Pn, loopvars, P_M_Curve, call, prev>>

\* lines 127-155, one depth of c_fine; with no bar the column slice of the
\* empty array raises IndexError at line 148
SweepIteration ==
    /\ pc = "sweep"
    /\ i < SweepLen
    /\ LET cc   == c_fine(i)
           rows == BarRows(cc)
           asm  == AsminusLoop(0, AsminusStart, cc)
           th   == angle(cc)
           sec  == circle_sector(cc, th)
           concrete_force  == -ConcreteLb(sec[1] - asm)
           concrete_moment == MulDiv(concrete_force, sec[2], Mil)
           pn   == concrete_force + SumCol(rows, 2)
           mn   == concrete_moment + SumCol(rows, 3)
           ph   == resist_factor(GoverningStrain(rows))
           pr   == CapPr(MulDiv(pn, ph, One), Max_Pn)
           mr   == FactoredMr(mn, ph)
       IN  /\ i' = i + 1
           /\ c' = cc
           /\ Asminus' = asm
           /\ bar_cg_force_moment' = rows
           /\ theta' = th
           /\ IF rows = << >>
              THEN /\ pc' = "error"
                   /\ UNCHANGED <<Pn, Mn, phi, Pr, Mr, P_M_Curve>>
              ELSE /\ Pn' = pn /\ Mn' = mn /\ phi' = ph /\ Pr' = pr /\ Mr' = mr
                   /\ P_M_Curve' = Append(P_M_Curve, <<pn, mn, pr, mr>>)
                   /\ pc' = "sweep"
    /\ UNCHANGED <<inputs, lookup, Max_Pn, bar_coords, call, prev>>

\* line 157 on: the loop is exhausted, the curve goes to the plots
SweepEnd ==
    /\ pc = "sweep"
    /\ i = SweepLen
    /\ pc' = "done"
    /\ UNCHANGED <<inputs, lookup, Max_Pn, bar_coords, loopvars, P_M_Curve, call, prev>>

Next == SteelLookup \/ MaxPn \/ RebarLayout \/ SweepIteration \/ SweepEnd

Spec == Init /\ [][Next]_vars

(***************************************************************************)
(* The material functions applied on their own: resist_factor and          *)
(* steel_stress are pure in the strain (steel_stress reads fy).            *)
(***************************************************************************)
FnYields == {58000, 60000}

StrainGrid ==
    LET grid == {k * 500 : k \in (-StrainSteps)..StrainSteps}
        near == {t + d : t \in {2000, 2069, 5000}, d \in -1..1}
    IN  grid \cup near \cup {-s : s \in near}

FnInit ==
    /\ pc = "fn"
    /\ diameter = 36 * Mil /\ cover = 3 * Mil /\ number_of_bars = 1 /\ bar = 11
    /\ fc = 3000 /\ fy \in FnYields /\ tie_type = "Spirals"
    /\ Unset

ApplyResistFactor ==
    /\ pc = "fn"
    /\ \E s \in StrainGrid :
          call' = [fn |-> "resist_factor", arg |-> s, res |-> resist_factor(s)]
    /\ prev' = call
    /\ UNCHANGED <<pc, inputs, lookup, Max_Pn, bar_coords, loopvars, P_M_Curve>>

ApplySteelStress ==
    /\ pc = "fn"
    /\ \E s \in StrainGrid :
          call' = [fn |-> "steel_stress", arg |-> s, res |-> steel_stress(s)]
    /\ prev' = call
    /\ UNCHANGED <<pc, inputs, lookup, Max_Pn, bar_coords, loopvars, P_M_Curve>>

FnNext == ApplyResistFactor \/ ApplySteelStress

FnSpec == FnInit /\ [][FnNext]_vars

\* the script run and the functions on their own, side by side
AllNext == SteelLookup \/ MaxPn \/ RebarLayout \/ SweepIteration \/ SweepEnd
              \/ ApplyResistFactor \/ ApplySteelStress

AllSpec == (Init \/ FnInit) /\ [][AllNext]_vars

(***************************************************************************)
(* Properties.                                                             *)
(***************************************************************************)
\* the section parameters the claims call valid
Valid == diameter > 0 /\ number_of_bars >= 1 /\ bar \in BarSizes

\* every bar lies inside the section (diameter > 2*cover + bar diameter)
BarsInside == cover >= 0 /\ diameter > 2 * cover + d_bar

\* the loop has appended the point of depth c
Evaluated == pc \in {"sweep", "done"} /\ i >= 1

UncappedPr == MulDiv(Pn, phi, One)
CapFired == Abs(UncappedPr) > Max_Pn

\* the bars whose compression-fiber depth is less than 0.85*c
BarsInBlock == {b \in DOMAIN bar_coords : (radius - bar_coords[b][2]) * 100 < 85 * c}

\* C1: every point of the curve stores a factored axial load Pr with
\* |Pr| <= Max_Pn, Max_Pn being the value computed before the sweep.
C1_PostClamp ==
    \A k \in 1..Len(P_M_Curve) : Abs(P_M_Curve[k][3]) <= Max_Pn

C1_Witness ==
    /\ Valid /\ Evaluated /\ CapFired /\ UncappedPr < 0
    /\ Pr = -Max_Pn
    /\ P_M_Curve[i][3] = -Max_Pn

\* C2: for valid parameters the sweep ends with exactly 980 points, the k-th
\* point being that of depth 2.0 + 0.1*(k-1) in (the depths strictly
\* increase, none below 2), and the run never ends in an error.
C2_Sweep ==
    Valid =>
        /\ pc \notin {"error", "stopped"}
        /\ Len(P_M_Curve) = i
        /\ i <= 980
        /\ i >= 1 => c = 2000 + 100 * (i - 1) /\ c >= 2000
        /\ pc = "sweep" => (i = 980 <=> ENABLED SweepEnd)
        /\ pc = "done" => Len(P_M_Curve) = 980 /\ c = 99900

C2_Witness == Valid /\ pc = "done" /\ Len(P_M_Curve) = 980 /\ c = 99900

\* C4: a non-positive diameter, a bar count of zero or a bar size outside
\* the table stops the run before any curve point is produced.
C4_InvalidInputAborts ==
    (diameter <= 0 \/ number_of_bars = 0 \/ bar \notin BarSizes) =>
        /\ P_M_Curve = << >>
        /\ pc # "done"

\* C7: the cap changes only Pr: the stored Pn and Mn are the uncapped sums,
\* the stored Mr is Mn*phi, and the stored Pr is Pn*phi when |Pn*phi| <= Max_Pn
\* and -Max_Pn otherwise.
C7_CapOnlyPr ==
    Evaluated =>
        LET sec == circle_sector(c, theta)
            concrete_force == -ConcreteLb(sec[1] - Asminus)
        IN  /\ P_M_Curve[i] = <<Pn, Mn, Pr, Mr>>
            /\ Pn = concrete_force + SumCol(bar_cg_force_moment, 2)
            /\ Mn = MulDiv(concrete_force, sec[2], Mil) + SumCol(bar_cg_force_moment, 3)
            /\ Mr = MulDiv(Mn, phi, One)
            /\ Abs(UncappedPr) <= Max_Pn => Pr = UncappedPr
            /\ Abs(UncappedPr) > Max_Pn => Pr = -Max_Pn

C7_Witness ==
    /\ Valid /\ Evaluated /\ CapFired
    /\ Pr = -Max_Pn /\ Pr # UncappedPr
    /\ Mn # 0 /\ Mr = MulDiv(Mn, phi, One) /\ Mr # Mn

\* C8: at every depth the steel area deducted is area_bar times the number
\* of bars whose compression-fiber depth is below 0.85*c, nothing is carried
\* over from earlier depths, and the point depends on c and the inputs only.
C8_Deduction ==
    Evaluated =>
        LET deducted == area_bar * Cardinality(BarsInBlock)
            sec == circle_sector(c, angle(c))
        IN  /\ Asminus = deducted
            /\ Pn = -ConcreteLb(sec[1] - deducted)
                      + SumCol([k \in 1..number_of_bars |->
                                  BarRow(bar_coords[k - 1][2], c)], 2)
            /\ P_M_Curve[i][1] = Pn

C8_Witness ==
    /\ Valid /\ Evaluated /\ i >= 2
    /\ 0 < Cardinality(BarsInBlock) /\ Cardinality(BarsInBlock) < number_of_bars
    /\ Asminus = area_bar * Cardinality(BarsInBlock)

\* C10: whenever the cap fires the uncapped Pn*phi is compressive (negative),
\* so the cap never turns a tensile factored load into a compressive one.
C10_CapOnlyCompressive ==
    (Valid /\ BarsInside /\ Evaluated /\ CapFired) => UncappedPr < 0

\* pure-compression nominal capacity 0.85*fc*area_conc_total + fy*area_steel
PureCompression == ConcreteLb(area_conc_total) + SteelLb(area_steel)
\* tolerance of the plateau statements: a thousandth of that capacity
PlateauTol == PureCompression \div 1000

\* the depth c lies beyond diameter/0.85, where angle(c) = pi
OnPlateau == Valid /\ BarsInside /\ Evaluated /\ c * 85 > diameter * 100

AllBarsYielded ==
    \A k \in 1..Len(bar_cg_force_moment) :
        Abs(bar_cg_force_moment[k][1]) * Es >= fy

LaidOut == pc \in {"sweep", "done"} /\ number_of_bars >= 1

SumX == SumCol([k \in 1..number_of_bars |-> bar_coords[k - 1]], 1)
SumY == SumCol([k \in 1..number_of_bars |-> bar_coords[k - 1]], 2)

\* squared distance between bars a and b
Chord2(a, b) ==
    (bar_coords[a][1] - bar_coords[b][1]) * (bar_coords[a][1] - bar_coords[b][1])
  + (bar_coords[a][2] - bar_coords[b][2]) * (bar_coords[a][2] - bar_coords[b][2])

\* n bars 0..n-1, bar 0 at angle 0, all on the circle of radius steel_cg and
\* evenly spaced (equal chords between neighbours), to within 3 mil
EvenlySpaced ==
    /\ DOMAIN bar_coords = 0..(number_of_bars - 1)
    /\ Abs(bar_coords[0][1] - steel_cg) <= 3 /\ bar_coords[0][2] = 0
    /\ \A b \in DOMAIN bar_coords :
          Abs(bar_coords[b][1] * bar_coords[b][1] + bar_coords[b][2] * bar_coords[b][2]
                - steel_cg * steel_cg) <= 6 * Abs(steel_cg) + 9
    /\ \A b \in DOMAIN bar_coords :
          Abs(Chord2(b, (b + 1) % number_of_bars) - Chord2(0, 1 % number_of_bars))
              <= 24 * Abs(steel_cg) + 36

\* the centroid of the bars is the origin to within 2 mil
CentroidAtOrigin ==
    Abs(SumX) <= 2 * number_of_bars /\ Abs(SumY) <= 2 * number_of_bars

\* C6 as stated: for every bar count n >= 1 the n bars are evenly spaced on
\* the circle of radius steel_cg and their centroid is the origin.
C6_LayoutCentroidAnyN ==
    (Valid /\ LaidOut) => EvenlySpaced /\ CentroidAtOrigin

\* C6 amended: for every bar count n >= 1 the n bars are evenly spaced on the
\* circle of radius steel_cg from angle 0; for n >= 2 their centroid is the
\* origin (a single bar sits at (steel_cg, 0)).
C6_LayoutCentroid ==
    LaidOut =>
        /\ EvenlySpaced
        /\ number_of_bars >= 2 => CentroidAtOrigin
        /\ number_of_bars = 1 => Abs(SumX - steel_cg) <= 3 /\ SumY = 0

C6_Witness ==
    /\ LaidOut /\ number_of_bars = 3 /\ diameter > 0
    /\ bar_coords[1][1] < 0 /\ bar_coords[1][2] > 0 /\ bar_coords[2][2] < 0
    /\ CentroidAtOrigin

\* the largest strain over the rows of bar_cg_force_moment
IsMaxStrain(m) ==
    /\ \E k \in 1..Len(bar_cg_force_moment) : bar_cg_force_moment[k][1] = m
    /\ \A k \in 1..Len(bar_cg_force_moment) : bar_cg_force_moment[k][1] <= m

\* C3: resist_factor is non-decreasing in the strain and lies in
\* [0.75, 0.90]: 0.75 up to 0.002, 0.90 from 0.005, the straight line
\* 0.75 + 0.15*(strain - 0.002)/0.003 in between; the factor of every curve
\* point is resist_factor of the largest bar strain.
C3_ResistFactor ==
    /\ call.fn = "resist_factor" =>
          /\ call.res >= 7500 /\ call.res <= 9000
          /\ call.arg <= 2000 => call.res = 7500
          /\ call.arg >= 5000 => call.res = 9000
          /\ (call.arg > 2000 /\ call.arg < 5000) =>
                /\ 2 * call.res <= 15000 + (call.arg - 2000)
                /\ 2 * call.res > 15000 + (call.arg - 2000) - 2
          /\ (prev.fn = "resist_factor" /\ prev.arg <= call.arg) =>
                prev.res <= call.res
    /\ Evaluated =>
          /\ phi >= 7500 /\ phi <= 9000
          /\ \E m \in {bar_cg_force_moment[k][1] : k \in 1..Len(bar_cg_force_moment)} :
                IsMaxStrain(m) /\ phi = resist_factor(m)

C3_Witness ==
    /\ call.fn = "resist_factor" /\ prev.fn = "resist_factor"
    /\ prev.arg > 2000 /\ prev.arg < call.arg /\ call.arg < 5000
    /\ prev.res > 7500 /\ prev.res < call.res /\ call.res < 9000

\* the elastic-perfectly-plastic law sign(e)*min(|e|*Es, fy)
EPP(e) ==
    LET m == IF Abs(e) * Es <= fy THEN Abs(e) * Es ELSE fy
    IN  IF e > 0 THEN m ELSE IF e < 0 THEN -m ELSE 0

\* C9: steel_stress(e) = sign(e)*min(|e|*Es, fy); it is odd, zero at 0,
\* never beyond fy in magnitude, and continuous (it changes by at most
\* Es*|e1 - e2| between two strains, so there is no jump at |e| = fy/Es).
C9_SteelStress ==
    call.fn = "steel_stress" =>
        /\ call.res = EPP(call.arg)
        /\ Abs(call.res) <= fy
        /\ call.arg = 0 => call.res = 0
        /\ prev.fn = "steel_stress" =>
              /\ prev.arg = -call.arg => prev.res = -call.res
              /\ Abs(call.res - prev.res) <= Es * Abs(call.arg - prev.arg)

C9_Witness ==
    /\ call.fn = "steel_stress" /\ prev.fn = "steel_stress"
    /\ call.arg < 0 /\ prev.arg = -call.arg
    /\ prev.res = fy /\ call.res = -fy
    /\ (prev.arg - 1) * Es < fy

====
